---- MODULE Spec2Model ----
(***************************************************************************)
(* Model of scraping/scraping_price.py: session bootstrap and CSRF token   *)
(* discovery, the retrying HTTP request (request_with_retry), the          *)
(* per-fuel collection (collect_one_page_per_fuel) and the run loop        *)
(* (main).  Time is kept in hundredths of a second so that the jittered    *)
(* backoff is exact in integers.                                           *)
(***************************************************************************)
EXTENDS Integers, Sequences, FiniteSets, TLC

\* ------------------------------------------------------------------ bounds
\* Longest results array the upstream returns in the model.
MaxItems == 2
\* Script tags on the longest landing page of the model (above the cap of 25).
MaxScripts == 27
\* Largest attempt number compute_backoff is evaluated at on its own.
MaxAttemptArg == 8
\* Longest text extract_csrf_from_html is evaluated on, in fragments.
MaxFrags == 3

\* ------------------------------------------------------- program constants
FUELS == <<"GASOLINA", "ETANOL", "GNV", "DIESEL">>
MAX_RETRIES == 6
BASE_BACKOFF_SECONDS == 2
MAX_BACKOFF_SECONDS == 60
\* script_urls[:25]
SCRIPT_SCAN_CAP == 25
\* random.uniform(0.25, 0.75), in percent of the base delay
JITTER_LOW == 25
JITTER_HIGH == 75

\* Jitter draws of the model: the two ends of the range.
JitterDraws == {JITTER_LOW, JITTER_HIGH}

Min(a, b) == IF a <= b THEN a ELSE b

\* Optional[str]: None is the empty sequence, a value is a one-element one.
None == <<>>
Some(x) == <<x>>
\* Python truthiness of an Optional[str]
Truthy(o) == o # None /\ o[1] # ""

\* ------------------------------------------------------------ CSRF discovery
\* A text (HTML or JS) is a sequence of fragments.  A fragment is what one
\* of the regular expressions can match at that place: k is the shape of
\* the fragment, v the text a capture group would take (the src form for a
\* script tag), n the script a script tag refers to.
Frag(k, v) == [k |-> k, v |-> v, n |-> 0]
ScriptTag(form, n) == [k |-> "script", v |-> form, n |-> n]

\* The five named patterns of extract_csrf_from_html, in list order.  With
\* re.IGNORECASE the fourth pattern, csrf[_-]?token, also matches inside
\* x-csrftoken and matches csrfToken.
PatternShapes ==
  << {"input"}, {"meta"}, {"xcsrf"}, {"xcsrf", "csrf_token", "csrfToken"}, {"csrfToken"} >>

\* re.search(p, text): the leftmost fragment the pattern matches; a capture
\* group is [^"']+, so an empty value does not match.  0 when no match.
PatternMatches(p, f) == f.k \in PatternShapes[p] /\ f.v # ""
SignedMatches(f) == f.k = "signed" /\ f.v # ""

RECURSIVE SearchFrom(_, _, _)
SearchFrom(text, i, p) ==
  IF i > Len(text) THEN 0
  ELSE IF (IF p = 0 THEN SignedMatches(text[i]) ELSE PatternMatches(p, text[i]))
       THEN i
       ELSE SearchFrom(text, i + 1, p)

\* the leftmost fragment any named pattern matches, whatever the pattern
TryPatterns_byPosition(html, p) ==
  LET named == {i \in 1..Len(html) : \E q \in 1..Len(PatternShapes) : PatternMatches(q, html[i])}
      m == SearchFrom(html, 1, 0) IN
    IF named # {} THEN Some(html[CHOOSE i \in named : \A k \in named : i <= k].v)
    ELSE IF m # 0 THEN Some(html[m].v) ELSE None

RECURSIVE TryPatterns(_, _)
TryPatterns(html, p) ==
  IF p > Len(PatternShapes) THEN
    \* m = SIGNED_TOKEN_RE.search(html)
    LET m == SearchFrom(html, 1, 0) IN
      IF m # 0 THEN Some(html[m].v) ELSE None
  ELSE
    LET m == SearchFrom(html, 1, p) IN
      IF m # 0 THEN Some(html[m].v) ELSE TryPatterns(html, p + 1)

extract_csrf_from_html(html) == TryPatterns(html, 1)

extract_csrf_from_js_text(text) ==
  LET m == SearchFrom(text, 1, 0) IN
    IF m # 0 THEN Some(text[m].v) ELSE None

\* urljoin(BASE_URL, s): a relative and an absolute src of the same asset
\* resolve to the same URL; the URL is the pair of origin and asset.
urljoin(f) == <<"https://precodahora.ba.gov.br", f.n>>

RECURSIVE ScriptSrcs(_, _)
ScriptSrcs(html, i) ==
  IF i > Len(html) THEN <<>>
  ELSE IF html[i].k = "script" /\ html[i].v # ""
       THEN <<urljoin(html[i])>> \o ScriptSrcs(html, i + 1)
       ELSE ScriptSrcs(html, i + 1)

InSeq(x, s) == \E i \in 1..Len(s) : s[i] = x

RECURSIVE DedupKeepFirst(_, _)
DedupKeepFirst(urls, out) ==
  IF urls = <<>> THEN out
  ELSE DedupKeepFirst(Tail(urls),
                      IF InSeq(Head(urls), out) THEN out ELSE Append(out, Head(urls)))

find_script_srcs(html) == DedupKeepFirst(ScriptSrcs(html, 1), <<>>)

\* script_urls[:25]
ScanList_nocap(script_urls) == script_urls
ScanList(script_urls) == SubSeq(script_urls, 1, Min(SCRIPT_SCAN_CAP, Len(script_urls)))

\* ---- landing pages and script texts the model draws from
ManyScripts(n) == [i \in 1..n |-> ScriptTag("rel", i)]
\* pages of a full run: a token in the markup, no token and no script, an
\* empty token value and one script
Pages ==
  { <<Frag("signed", "ImS.a.b"), Frag("csrfToken", "tokC"), Frag("input", "tokI")>>,
    <<Frag("text", "")>>,
    <<Frag("input", ""), ScriptTag("rel", 1)>> }
\* pages of the script scan: duplicates, relative and absolute forms, and
\* more scripts than the cap
ScanPages ==
  { <<Frag("meta", "tokM")>>,
    <<ScriptTag("rel", 1), Frag("signed", "ImS.a.b")>>,
    <<ScriptTag("rel", 2), ScriptTag("abs", 1), ScriptTag("rel", 2),
      ScriptTag("rel", 1), ScriptTag("abs", 3)>>,
    ManyScripts(SCRIPT_SCAN_CAP),
    ManyScripts(MaxScripts),
    <<ScriptTag("abs", 2), ScriptTag("rel", 2)>> \o ManyScripts(MaxScripts) }

\* texts the extractors are evaluated on, on their own: every sequence of
\* at most MaxFrags of these fragments
TextFrags ==
  { Frag("input", "tokI"), Frag("meta", "tokM"), Frag("xcsrf", "tokX"),
    Frag("csrf_token", "tokT"), Frag("csrfToken", "tokC"), Frag("signed", "ImS.a.b"),
    Frag("input", ""), Frag("text", "") }
Texts == UNION { [1..n -> TextFrags] : n \in 0..MaxFrags }

\* every jitter draw of random.uniform(0.25, 0.75), in whole percents
JitterPercents == JITTER_LOW..JITTER_HIGH

JsTexts ==
  { <<>>,
    <<Frag("csrf_token", "tokJ")>>,
    <<Frag("text", ""), Frag("signed", "ImJ.s.t")>> }

\* ------------------------------------------------------ HTTP with retry/backoff
RECURSIVE Pow2(_)
Pow2(n) == IF n <= 0 THEN 1 ELSE 2 * Pow2(n - 1)

\* compute_backoff(attempt) with the jitter draw j (percent), in hundredths
\* of a second: base seconds * 100 + (j/100 * base) seconds * 100.
compute_backoff_noFinalCap(attempt, j) ==
  LET base == Min(MAX_BACKOFF_SECONDS, BASE_BACKOFF_SECONDS * Pow2(attempt - 1)) IN
    base * 100 + j * base
compute_backoff_jitterSubtracted(attempt, j) ==
  LET base == Min(MAX_BACKOFF_SECONDS, BASE_BACKOFF_SECONDS * Pow2(attempt - 1)) IN
    Min(MAX_BACKOFF_SECONDS * 100, base * 100 - j * base)
compute_backoff(attempt, j) ==
  LET base == Min(MAX_BACKOFF_SECONDS, BASE_BACKOFF_SECONDS * Pow2(attempt - 1)) IN
    Min(MAX_BACKOFF_SECONDS * 100, base * 100 + j * base)

\* A Retry-After header: absent, or a string of characters.
NoHeader == [present |-> FALSE, chars |-> <<>>]
Header(chars) == [present |-> TRUE, chars |-> chars]

\* Characters a header value is made of in the model: two decimal digits, a
\* digit that is no decimal (superscript two), and a sign.
DecimalChars == {"0", "5"}
DigitChars == DecimalChars \cup {"SUP2"}
HeaderChars == DigitChars \cup {"-"}
DecimalValue(c) == IF c = "5" THEN 5 ELSE 0

\* str.isdigit(): non-empty and every character a digit
isdigit(chars) == chars # <<>> /\ \A i \in 1..Len(chars) : chars[i] \in DigitChars

\* retry_after and retry_after.isdigit()
HonorsRetryAfter_zeroIsFalsy(h) ==
  h.present /\ h.chars # <<>> /\ isdigit(h.chars)
    /\ \E i \in 1..Len(h.chars) : h.chars[i] # "0"
HonorsRetryAfter(h) == h.present /\ h.chars # <<>> /\ isdigit(h.chars)

\* float(retry_after): raises ValueError on a character that is no decimal
FloatRaises(chars) == \E i \in 1..Len(chars) : chars[i] \notin DecimalChars
RECURSIVE FloatOf(_)
FloatOf(chars) ==
  IF chars = <<>> THEN 0
  ELSE 10 * FloatOf(SubSeq(chars, 1, Len(chars) - 1)) + DecimalValue(chars[Len(chars)])

\* A time.sleep: what set its length, the attempt it follows, its length
NoWait == [kind |-> "none", attempt |-> 0, cs |-> 0]
Wait(kind, attempt, cs) == [kind |-> kind, attempt |-> attempt, cs |-> cs]

\* the wait of the 429 branch: wait_s = float(retry_after) when the header
\* is honoured, else compute_backoff(attempt)
RateLimitWait_firstAttemptDelay(h, att, j) ==
  IF HonorsRetryAfter(h)
  THEN Wait("retry_after", att, 100 * FloatOf(h.chars))
  ELSE Wait("backoff", 1, compute_backoff(1, j))
RateLimitWait(h, att, j) ==
  IF HonorsRetryAfter(h)
  THEN Wait("retry_after", att, 100 * FloatOf(h.chars))
  ELSE Wait("backoff", att, compute_backoff(att, j))

RetryAfterHeaders ==
  { NoHeader, Header(<<>>), Header(<<"0">>), Header(<<"5">>), Header(<<"5", "0">>),
    Header(<<"-", "5">>), Header(<<"5", "SUP2">>) }

\* Response.raise_for_status(): HTTPError for 400 <= status < 600
RaisesForStatus(status) == 400 <= status /\ status < 600

OkStatuses == {200}
ErrorStatuses == {404, 500}

NoResp == [kind |-> "none", status |-> 0, retry_after |-> NoHeader]
HttpResp(status, h) == [kind |-> "http", status |-> status, retry_after |-> h]
FaultResp == [kind |-> "fault", status |-> 0, retry_after |-> NoHeader]


\* ------------------------------------------------------------ JSON responses
JVal(t, n, items) == [t |-> t, n |-> n, items |-> items]
JMissing == JVal("missing", 0, <<>>)
JNull == JVal("null", 0, <<>>)
JNum(n) == JVal("num", n, <<>>)
JBool(b) == JVal("bool", IF b THEN 1 ELSE 0, <<>>)
JStr(len) == JVal("str", len, <<>>)
JObj(keys) == JVal("obj", keys, <<>>)
JList(items) == JVal("list", Len(items), items)

\* Python truthiness of data.get(key): a missing key gives None
PyTruthy(v) ==
  CASE v.t \in {"missing", "null"} -> FALSE
    [] OTHER -> v.n # 0

\* x or []
OrEmptyList(v) == IF PyTruthy(v) THEN v ELSE JList(<<>>)

\* len(x) raises TypeError for a number or a boolean
HasLen(v) == v.t \in {"str", "obj", "list"}

\* int(x): a number or a boolean converts; None, a list, an object raise
\* TypeError; the strings of the model are not numerals (ValueError)
IntRaises(v) == v.t \notin {"num", "bool", "missing"}
IntOf(v, default) == IF v.t = "missing" THEN default ELSE v.n

\* The elements a for loop visits: the items of a list, the characters of
\* a string, the keys of an object (numbered).
ItemsOf(v) == IF v.t = "list" THEN v.items ELSE [i \in 1..v.n |-> i]

ItemLists == { [i \in 1..n |-> i] : n \in 0..MaxItems }
ResultadoValues ==
  { JMissing, JNull, JNum(0), JNum(5), JBool(FALSE), JBool(TRUE),
    JStr(0), JStr(3), JObj(0), JObj(1) } \cup { JList(l) : l \in ItemLists }

Body(json, top, resultado, totalPaginas, totalRegistros, registrosdaPagina) ==
  [json |-> json, top |-> top, resultado |-> resultado,
   totalPaginas |-> totalPaginas, totalRegistros |-> totalRegistros,
   registrosdaPagina |-> registrosdaPagina]
NoBody == Body(FALSE, "none", JMissing, JMissing, JMissing, JMissing)

\* Bodies of a 2xx response: no JSON, a JSON array, every value of resultado
\* without counters, and counters that are reported, null or a string.
Bodies ==
  { Body(FALSE, "text", JMissing, JMissing, JMissing, JMissing),
    Body(TRUE, "array", JMissing, JMissing, JMissing, JMissing),
    Body(TRUE, "object", JList(<<1>>), JNum(1), JNum(9), JNum(9)),
    Body(TRUE, "object", JList(<<1>>), JNull, JNum(9), JNum(9)),
    Body(TRUE, "object", JList(<<1>>), JNum(1), JNum(9), JStr(3)) }
  \cup { Body(TRUE, "object", r, JMissing, JMissing, JMissing) : r \in ResultadoValues }

\* The sanity checks of collect_one_page_per_fuel, in the order the code
\* evaluates them; err is the exception raised, "" when none.
IsList(results) == results.t = "list"

SanityCheck(data) ==
  LET results == OrEmptyList(data.resultado)
      err ==
        IF data.top # "object" THEN "AttributeError"
        ELSE IF IntRaises(data.totalPaginas) THEN "int(totalPaginas) raises"
        ELSE IF IntRaises(data.totalRegistros) THEN "int(totalRegistros) raises"
        ELSE IF ~HasLen(results) THEN "TypeError: len(resultado)"
        ELSE IF IntRaises(data.registrosdaPagina) THEN "int(registrosdaPagina) raises"
        ELSE IF ~IsList(results) THEN "RuntimeError: 'resultado' is not a list"
        ELSE ""
  IN [err |-> err,
      total_pages |-> IntOf(data.totalPaginas, 1),
      total_registros |-> IntOf(data.totalRegistros, 0),
      page_count |-> IF HasLen(results) THEN IntOf(data.registrosdaPagina, results.n) ELSE 0]

page_to_rows_reversed(collected_at_utc, id, anp, data) ==
  LET results == ItemsOf(OrEmptyList(data.resultado)) IN
    [i \in 1..Len(results) |->
       [collected_at_utc |-> collected_at_utc, run_id |-> id, source |-> "precodahora",
        anp |-> anp, raw |-> results[Len(results) + 1 - i]]]
page_to_rows(collected_at_utc, id, anp, data) ==
  LET results == ItemsOf(OrEmptyList(data.resultado)) IN
    [i \in 1..Len(results) |->
       [collected_at_utc |-> collected_at_utc, run_id |-> id, source |-> "precodahora",
        anp |-> anp, raw |-> results[i]]]

\* str(uuid.uuid4()) after u identifiers were drawn: one never drawn before
uuid4_ofTheFuel(u) == (u % Len(FUELS)) + 1
uuid4(u) == u + 1

\* Files are kept per run identifier: data.jsonl as the sequence of its
\* lines, manifest.json as the manifest.
FileExists(files, id) == id \in DOMAIN files
RemoveFile_keeps(files, id) == files
RemoveFile(files, id) == [r \in (DOMAIN files) \ {id} |-> files[r]]
\* open(path, "a"): creates the file or appends to it
append_jsonl(files, id, rows) ==
  LET old == IF FileExists(files, id) THEN files[id] ELSE <<>> IN
    [r \in (DOMAIN files) \cup {id} |-> IF r = id THEN old \o rows ELSE files[r]]
\* open(path, "w") + json.dump
WriteJson(files, id, doc) ==
  [r \in (DOMAIN files) \cup {id} |-> IF r = id THEN doc ELSE files[r]]

\* ------------------------------------------------------------------- state
VARIABLES
  site,           \* the landing page the site serves
  main_pc,        \* where main is
  fail_reason,    \* the exception main died of, "" while it lives
  html,           \* the landing page received (debug_bootstrap.html)
  landing_resp,   \* the response to the landing-page GET
  landing_gets,   \* landing-page GETs issued
  script_urls,    \* find_script_srcs(html)
  scan_i,         \* index of the next script of the loop over script_urls[:25]
  fetched,        \* script URLs requested, in order
  csrf_from,      \* 0: token from the markup; i: from the i-th script requested
  csrf,           \* Optional[str]: the token bootstrap returned
  idx,            \* enumerate(FUELS, start=1)
  uuids,          \* run identifiers drawn so far (uuid4 never repeats)
  run_id,         \* the run identifier of the fuel in hand
  attempt,        \* request_with_retry: the loop variable
  last_err,       \* request_with_retry: last_err
  nreq,           \* requests issued by the call in hand
  nwait,          \* time.sleep calls of the call in hand
  only429plain,   \* every response to the call in hand was a 429 without Retry-After
  last_resp,      \* outcome of the latest attempt
  last_wait,      \* the latest time.sleep of the call in hand
  resp_body,      \* body of the response request_with_retry returned
  rows,           \* page_to_rows(...)
  stats,          \* response_stats of the manifest being built
  exc,            \* the exception in flight in main's try block, "" when none
  exc_cause,      \* last_error= of "Request failed after ... retries"
  data_files,     \* run_id -> lines of data.jsonl
  manifests,      \* run_id -> manifest.json
  overall_runs,   \* overall["runs"]
  overall_file,   \* Optional: overall_manifest.json
  posted,         \* indexes of the fuels a POST was issued for
  post_tokens,    \* X-CSRFToken values sent
  pauses,         \* courtesy pauses performed
  now,            \* utc_now_iso(): whole seconds since main started, as far as the
                  \* courtesy pauses alone make them pass
  collected_at,   \* collect_one_page_per_fuel: collected_at
  finished_at,    \* overall["finished_at_utc"]
  drawn,          \* run identifiers drawn by this invocation, in order
  overall_writes, \* times overall_manifest.json was written
  fn_pc,          \* a pure function on its own: "idle", "args" or "done"
  fn_n,           \* compute_backoff: attempt
  fn_j1,          \* compute_backoff: the jitter draw for attempt
  fn_j2,          \* compute_backoff: the jitter draw for attempt + 1
  fn_out1,        \* compute_backoff(attempt)
  fn_out2,        \* compute_backoff(attempt + 1)
  fn_text,        \* extract_csrf_from_html, extract_csrf_from_js_text: the text
  fn_html_token,  \* extract_csrf_from_html(text)
  fn_js_token,    \* extract_csrf_from_js_text(text)
  api_req,        \* the API: the request being answered
  api_exc,        \* the API: the exception the called function raised, or "None"
  api_status,     \* the API: HTTP status of the answer, 0 before any request
  api_queries     \* the API: the querydb calls made for the request, in order

boot_vars == <<html, landing_resp, landing_gets, script_urls, scan_i, fetched, csrf_from, csrf>>
retry_vars == <<attempt, last_err, nreq, nwait, only429plain, last_resp, last_wait>>
fuel_vars == <<idx, uuids, run_id>>
page_vars == <<resp_body, rows, stats>>
file_vars == <<data_files, manifests, overall_file>>
log_vars == <<posted, post_tokens, pauses>>
clock_vars == <<now, collected_at, drawn, overall_writes>>
api_vars == <<api_req, api_exc, api_status, api_queries>>
fn_vars == <<fn_pc, fn_n, fn_j1, fn_j2, fn_out1, fn_out2, fn_text, fn_html_token, fn_js_token,
             api_vars>>
vars == <<site, main_pc, fail_reason, boot_vars, retry_vars, fuel_vars, page_vars, exc,
          exc_cause, file_vars, overall_runs, log_vars, clock_vars, finished_at, fn_vars>>

NoStats == [total_pages |-> 0, total_registros |-> 0, page_count |-> 0]

\* main is about to start; the disk and the identifiers drawn so far are
\* set by the caller
Boot ==
  /\ main_pc = "bootstrap"
  /\ fail_reason = ""
  /\ html = <<>>
  /\ landing_resp = NoResp
  /\ landing_gets = 0
  /\ script_urls = <<>>
  /\ scan_i = 0
  /\ fetched = <<>>
  /\ csrf_from = 0
  /\ csrf = None
  /\ idx = 0
  /\ run_id = 0
  /\ attempt = 0
  /\ last_err = "None"
  /\ nreq = 0
  /\ nwait = 0
  /\ only429plain = TRUE
  /\ last_resp = NoResp
  /\ last_wait = NoWait
  /\ resp_body = NoBody
  /\ rows = <<>>
  /\ stats = NoStats
  /\ exc = ""
  /\ exc_cause = "None"
  /\ overall_runs = <<>>
  /\ overall_file = None
  /\ posted = {}
  /\ post_tokens = {}
  /\ pauses = 0
  /\ now = 0
  /\ collected_at = 0
  /\ finished_at = 0
  /\ drawn = <<>>
  /\ overall_writes = 0

\* no pure function is being evaluated on its own
NoRequest == [endpoint |-> "none"]
ApiIdle ==
  /\ api_req = NoRequest
  /\ api_exc = "None"
  /\ api_status = 0
  /\ api_queries = <<>>

FnIdle ==
  /\ ApiIdle
  /\ fn_pc = "idle"
  /\ fn_n = 0
  /\ fn_j1 = 0
  /\ fn_j2 = 0
  /\ fn_out1 = 0
  /\ fn_out2 = 0
  /\ fn_text = <<>>
  /\ fn_html_token = None
  /\ fn_js_token = None

\* a first invocation on an empty output directory
Start ==
  /\ Boot
  /\ FnIdle
  /\ uuids = 0
  /\ data_files = <<>>
  /\ manifests = <<>>

Init == site \in Pages /\ Start

\* What an earlier invocation that completed left on disk: one batch and
\* one manifest per fuel, under the identifiers it drew.
PriorBody == Body(TRUE, "object", JList(<<1>>), JMissing, JMissing, JMissing)
PriorData ==
  [r \in 1..Len(FUELS) |-> page_to_rows(r - 10, r, FUELS[r], PriorBody)]
PriorManifests ==
  [r \in 1..Len(FUELS) |->
     [run_id |-> r, collected_at_utc |-> r - 10, anp |-> FUELS[r],
      totalPaginas_reported |-> 1, totalRegistros_reported |-> 0,
      registrosdaPagina_reported |-> 1, rows_written |-> 1]]

\* a second invocation, on the output directory of the earlier one
InitRerun ==
  /\ site \in Pages
  /\ Boot
  /\ FnIdle
  /\ uuids = Len(FUELS)
  /\ data_files = PriorData
  /\ manifests = PriorManifests
InitScan == site \in ScanPages /\ Start

\* ---------------------------------------------------- bootstrap_and_find_csrf
\* main dies: the exception leaves main
Die(reason) ==
  /\ main_pc' = "failed"
  /\ fail_reason' = reason

\* bootstrap returned: main builds `overall` and enters the loop over FUELS
EnterLoop ==
  /\ finished_at' = now
  /\ main_pc' = "loop"
  /\ idx' = 1
  /\ overall_runs' = <<>>

LandingErrorStatuses == {401, 404, 429, 500}

\* session.get(BASE_URL) raises (timeout, connection reset)
BootstrapFault ==
  /\ main_pc = "bootstrap"
  /\ landing_gets' = landing_gets + 1
  /\ landing_resp' = FaultResp
  /\ Die("bootstrap: transport fault")
  /\ UNCHANGED <<site, html, script_urls, scan_i, fetched, csrf_from, csrf, retry_vars, fuel_vars,
                 page_vars, exc, exc_cause, file_vars, overall_runs, log_vars>>
  /\ UNCHANGED <<clock_vars, finished_at, fn_vars>>

\* r.raise_for_status() raises on the landing page
BootstrapHttpError ==
  /\ main_pc = "bootstrap"
  /\ \E status \in LandingErrorStatuses, h \in {NoHeader, Header(<<"5">>)} :
       /\ RaisesForStatus(status)
       /\ landing_resp' = HttpResp(status, h)
  /\ landing_gets' = landing_gets + 1
  /\ Die("bootstrap: HTTPError")
  /\ UNCHANGED <<site, html, script_urls, scan_i, fetched, csrf_from, csrf, retry_vars, fuel_vars,
                 page_vars, exc, exc_cause, file_vars, overall_runs, log_vars>>
  /\ UNCHANGED <<clock_vars, finished_at, fn_vars>>

\* the landing page arrives: extract_csrf_from_html, else prepare the scan
BootstrapPage ==
  /\ main_pc = "bootstrap"
  /\ \E status \in OkStatuses :
       /\ ~RaisesForStatus(status)
       /\ landing_resp' = HttpResp(status, NoHeader)
       /\ html' = site
       /\ LET token == extract_csrf_from_html(site) IN
            IF Truthy(token)
            THEN /\ csrf' = token
                 /\ EnterLoop
                 /\ UNCHANGED <<script_urls, scan_i>>
            ELSE /\ script_urls' = find_script_srcs(site)
                 /\ scan_i' = 1
                 /\ main_pc' = "scan"
                 /\ UNCHANGED <<csrf, idx, overall_runs, finished_at>>
  /\ landing_gets' = landing_gets + 1
  /\ UNCHANGED <<site, fail_reason, fetched, csrf_from, retry_vars, uuids, run_id, page_vars,
                 exc, exc_cause, file_vars, log_vars>>
  /\ UNCHANGED <<clock_vars, fn_vars>>

Scanning == main_pc = "scan" /\ scan_i <= Len(ScanList(script_urls))

\* session.get(url) raises: nothing catches it
ScanFault ==
  /\ Scanning
  /\ fetched' = Append(fetched, script_urls[scan_i])
  /\ Die("bootstrap: transport fault on a script")
  /\ UNCHANGED <<site, html, landing_resp, landing_gets, script_urls, scan_i, csrf_from, csrf,
                 retry_vars, fuel_vars, page_vars, exc, exc_cause, file_vars,
                 overall_runs, log_vars>>
  /\ UNCHANGED <<clock_vars, finished_at, fn_vars>>

\* rr.status_code != 200: continue
ScanSkipped ==
  /\ Scanning
  /\ \E status \in LandingErrorStatuses : status # 200
  /\ fetched' = Append(fetched, script_urls[scan_i])
  /\ scan_i' = scan_i + 1
  /\ UNCHANGED <<site, main_pc, fail_reason, html, landing_resp, landing_gets, script_urls,
                 csrf_from, csrf, retry_vars, fuel_vars, page_vars, exc, exc_cause,
                 file_vars, overall_runs, log_vars>>
  /\ UNCHANGED <<clock_vars, finished_at, fn_vars>>

\* a script arrives: extract_csrf_from_js_text; a token ends the scan
ScanScript ==
  /\ Scanning
  /\ fetched' = Append(fetched, script_urls[scan_i])
  /\ \E text \in JsTexts :
       LET token == extract_csrf_from_js_text(text) IN
         IF Truthy(token)
         THEN /\ csrf' = token
              /\ csrf_from' = scan_i
              /\ EnterLoop
              /\ UNCHANGED scan_i
         ELSE /\ scan_i' = scan_i + 1
              /\ UNCHANGED <<main_pc, csrf, csrf_from, idx, overall_runs, finished_at>>
  /\ UNCHANGED <<site, fail_reason, html, landing_resp, landing_gets, script_urls, retry_vars,
                 uuids, run_id, page_vars, exc, exc_cause, file_vars, log_vars>>
  /\ UNCHANGED <<clock_vars, fn_vars>>

\* the loop over script_urls[:25] ends without a token
ScanExhausted_unauthenticated ==
  /\ main_pc = "scan"
  /\ scan_i > Len(ScanList(script_urls))
  /\ csrf' = Some("")
  /\ EnterLoop
  /\ UNCHANGED <<site, fail_reason, html, landing_resp, landing_gets, script_urls, scan_i, fetched,
                 csrf_from, retry_vars, uuids, run_id, page_vars, exc, exc_cause,
                 file_vars, log_vars>>
  /\ UNCHANGED <<clock_vars, fn_vars>>
ScanExhausted ==
  /\ main_pc = "scan"
  /\ scan_i > Len(ScanList(script_urls))
  /\ Die("bootstrap: CSRF token not found in HTML or JS bundles")
  /\ UNCHANGED <<site, boot_vars, retry_vars, fuel_vars, page_vars, exc, exc_cause, file_vars,
                 overall_runs, log_vars>>
  /\ UNCHANGED <<clock_vars, finished_at, fn_vars>>

\* --------------------------------------------------- collect_one_page_per_fuel
\* run_id = uuid4(); make_out_paths; remove a data.jsonl already there; then
\* post_products enters request_with_retry
CollectStart ==
  /\ main_pc = "loop"
  /\ uuids' = uuids + 1
  /\ run_id' = uuid4(uuids)
  /\ drawn' = Append(drawn, uuid4(uuids))
  /\ collected_at' = now
  /\ data_files' = IF FileExists(data_files, uuid4(uuids))
                   THEN RemoveFile(data_files, uuid4(uuids)) ELSE data_files
  /\ attempt' = 1
  /\ last_err' = "None"
  /\ nreq' = 0
  /\ nwait' = 0
  /\ only429plain' = TRUE
  /\ last_resp' = NoResp
  /\ last_wait' = NoWait
  /\ main_pc' = "request"
  /\ UNCHANGED <<site, fail_reason, boot_vars, idx, page_vars, exc, exc_cause, manifests,
                 overall_file, overall_runs, log_vars>>
  /\ UNCHANGED <<now, overall_writes, finished_at, fn_vars>>

\* ------------------------------------------------------------ request_with_retry
InAttempt == main_pc = "request" /\ attempt <= MAX_RETRIES

\* session.request(...) goes out with the X-CSRFToken header
Issue ==
  /\ nreq' = nreq + 1
  /\ posted' = posted \cup {idx}
  /\ post_tokens' = post_tokens \cup {csrf}

\* except Exception as e: last_err = e; sleep(compute_backoff(attempt))
Caught_noFinalWait(e, j) ==
  /\ last_err' = e
  /\ last_wait' = IF attempt < MAX_RETRIES
                  THEN Wait("backoff", attempt, compute_backoff(attempt, j)) ELSE last_wait
  /\ nwait' = IF attempt < MAX_RETRIES THEN nwait + 1 ELSE nwait
  /\ attempt' = attempt + 1
Caught(e, j) ==
  /\ last_err' = e
  /\ last_wait' = Wait("backoff", attempt, compute_backoff(attempt, j))
  /\ nwait' = nwait + 1
  /\ attempt' = attempt + 1

AttemptTransportFault ==
  /\ InAttempt
  /\ Issue
  /\ only429plain' = FALSE
  /\ last_resp' = FaultResp
  /\ \E j \in JitterDraws : Caught("transport fault", j)
  /\ UNCHANGED <<site, main_pc, fail_reason, boot_vars, fuel_vars, page_vars, exc,
                 exc_cause, file_vars, overall_runs, pauses>>
  /\ UNCHANGED <<clock_vars, finished_at, fn_vars>>

AttemptRateLimited ==
  /\ InAttempt
  /\ Issue
  /\ \E h \in RetryAfterHeaders, j \in JitterDraws :
       /\ last_resp' = HttpResp(429, h)
       /\ only429plain' = (only429plain /\ ~h.present)
       /\ IF HonorsRetryAfter(h) /\ FloatRaises(h.chars)
          THEN Caught("ValueError", j)
          ELSE /\ last_wait' = RateLimitWait(h, attempt, j)
               /\ nwait' = nwait + 1
               /\ attempt' = attempt + 1
               /\ UNCHANGED last_err
  /\ UNCHANGED <<site, main_pc, fail_reason, boot_vars, fuel_vars, page_vars, exc, exc_cause,
                 file_vars, overall_runs, pauses>>
  /\ UNCHANGED <<clock_vars, finished_at, fn_vars>>

\* raise RuntimeError("401 unauthorized ...") inside the try block
AttemptUnauthorized ==
  /\ InAttempt
  /\ Issue
  /\ only429plain' = FALSE
  /\ last_resp' = HttpResp(401, NoHeader)
  /\ \E j \in JitterDraws : Caught("401 unauthorized", j)
  /\ UNCHANGED <<site, main_pc, fail_reason, boot_vars, fuel_vars, page_vars, exc,
                 exc_cause, file_vars, overall_runs, pauses>>
  /\ UNCHANGED <<clock_vars, finished_at, fn_vars>>

\* r.raise_for_status() raises HTTPError
AttemptHttpError ==
  /\ InAttempt
  /\ Issue
  /\ only429plain' = FALSE
  /\ \E status \in ErrorStatuses, j \in JitterDraws :
       /\ RaisesForStatus(status)
       /\ last_resp' = HttpResp(status, NoHeader)
       /\ Caught("HTTPError", j)
  /\ UNCHANGED <<site, main_pc, fail_reason, boot_vars, fuel_vars, page_vars, exc,
                 exc_cause, file_vars, overall_runs, pauses>>
  /\ UNCHANGED <<clock_vars, finished_at, fn_vars>>

\* return r
AttemptSuccess ==
  /\ InAttempt
  /\ Issue
  /\ \E status \in OkStatuses :
       /\ ~RaisesForStatus(status)
       /\ last_resp' = HttpResp(status, NoHeader)
  /\ main_pc' = "parse"
  /\ UNCHANGED <<site, fail_reason, boot_vars, fuel_vars, attempt, last_err, nwait, only429plain,
                 last_wait, page_vars, exc, exc_cause, file_vars, overall_runs, pauses>>
  /\ UNCHANGED <<clock_vars, finished_at, fn_vars>>

\* the for loop ends: raise RuntimeError("Request failed after ... last_error=...")
RetriesExhausted ==
  /\ main_pc = "request"
  /\ attempt > MAX_RETRIES
  /\ exc' = "RuntimeError: Request failed after retries"
  /\ exc_cause' = last_err
  /\ main_pc' = "finally"
  /\ UNCHANGED <<site, fail_reason, boot_vars, retry_vars, fuel_vars, page_vars, file_vars,
                 overall_runs, log_vars>>
  /\ UNCHANGED <<clock_vars, finished_at, fn_vars>>

\* ------------------------------------------- post_products' r.json(), the checks
ResetCall ==
  /\ attempt' = 0
  /\ last_err' = "None"
  /\ nreq' = 0
  /\ nwait' = 0
  /\ only429plain' = TRUE
  /\ last_resp' = NoResp
  /\ last_wait' = NoWait

\* r.json(), the sanity checks and page_to_rows; an exception goes to the
\* finally clause of main
ParseResponse_writesAnyway ==
  /\ main_pc = "parse"
  /\ ResetCall
  /\ \E body \in Bodies :
       /\ resp_body' = body
       /\ rows' = IF body.json /\ body.top = "object"
                  THEN page_to_rows(collected_at, run_id, FUELS[idx], body) ELSE <<>>
       /\ stats' = NoStats
  /\ main_pc' = "write_data"
  /\ UNCHANGED <<site, fail_reason, boot_vars, fuel_vars, exc, exc_cause, file_vars,
                 overall_runs, log_vars>>
  /\ UNCHANGED <<clock_vars, finished_at, fn_vars>>
ParseResponse ==
  /\ main_pc = "parse"
  /\ ResetCall
  /\ \E body \in Bodies :
       /\ resp_body' = body
       /\ IF ~body.json
          THEN /\ exc' = "RuntimeError: Response is not JSON"
               /\ main_pc' = "finally"
               /\ UNCHANGED <<rows, stats>>
          ELSE LET check == SanityCheck(body) IN
                 IF check.err # ""
                 THEN /\ exc' = check.err
                      /\ main_pc' = "finally"
                      /\ UNCHANGED <<rows, stats>>
                 ELSE /\ rows' = page_to_rows(collected_at, run_id, FUELS[idx], body)
                      /\ stats' = [total_pages |-> check.total_pages,
                                   total_registros |-> check.total_registros,
                                   page_count |-> check.page_count]
                      /\ main_pc' = "write_data"
                      /\ UNCHANGED exc
  /\ UNCHANGED <<site, fail_reason, boot_vars, fuel_vars, exc_cause, file_vars,
                 overall_runs, log_vars>>
  /\ UNCHANGED <<clock_vars, finished_at, fn_vars>>

\* append_jsonl(paths["data_jsonl"], rows)
WriteData ==
  /\ main_pc = "write_data"
  /\ data_files' = append_jsonl(data_files, run_id, rows)
  /\ main_pc' = "write_manifest"
  /\ UNCHANGED <<site, fail_reason, boot_vars, retry_vars, fuel_vars, page_vars, exc, exc_cause,
                 manifests, overall_file, overall_runs, log_vars>>
  /\ UNCHANGED <<clock_vars, finished_at, fn_vars>>

Manifest ==
  [run_id |-> run_id, collected_at_utc |-> collected_at, anp |-> FUELS[idx],
   totalPaginas_reported |-> stats.total_pages,
   totalRegistros_reported |-> stats.total_registros,
   registrosdaPagina_reported |-> stats.page_count,
   rows_written |-> Len(rows)]

\* json.dump(manifest); return manifest; overall["runs"].append(manifest)
WriteManifest_skipsEmpty ==
  /\ main_pc = "write_manifest"
  /\ manifests' = WriteJson(manifests, run_id, Manifest)
  /\ overall_runs' = IF rows = <<>> THEN overall_runs ELSE Append(overall_runs, Manifest)
  /\ main_pc' = "finally"
  /\ UNCHANGED <<site, fail_reason, boot_vars, retry_vars, fuel_vars, page_vars, exc, exc_cause,
                 data_files, overall_file, log_vars>>
  /\ UNCHANGED <<clock_vars, finished_at, fn_vars>>
WriteManifest ==
  /\ main_pc = "write_manifest"
  /\ manifests' = WriteJson(manifests, run_id, Manifest)
  /\ overall_runs' = Append(overall_runs, Manifest)
  /\ main_pc' = "finally"
  /\ UNCHANGED <<site, fail_reason, boot_vars, retry_vars, fuel_vars, page_vars, exc, exc_cause,
                 data_files, overall_file, log_vars>>
  /\ UNCHANGED <<clock_vars, finished_at, fn_vars>>

\* ------------------------------------------------------------------------ main
\* the finally clause: the pause when a fuel is left; then the exception in
\* flight leaves main, or the loop goes on
Finally_noPauseOnError ==
  /\ main_pc = "finally"
  /\ pauses' = IF idx < Len(FUELS) /\ exc = "" THEN pauses + 1 ELSE pauses
  /\ now' = IF idx < Len(FUELS) THEN now + 1 ELSE now
  /\ IF exc # ""
     THEN /\ Die(exc)
          /\ UNCHANGED <<idx, retry_vars, page_vars>>
     ELSE /\ UNCHANGED <<site, fail_reason, retry_vars>>
          /\ resp_body' = NoBody
          /\ rows' = <<>>
          /\ stats' = NoStats
          /\ IF idx < Len(FUELS)
             THEN idx' = idx + 1 /\ main_pc' = "loop"
             ELSE idx' = idx /\ main_pc' = "write_overall"
  /\ UNCHANGED <<site, boot_vars, uuids, run_id, exc, exc_cause, file_vars, overall_runs,
                 posted, post_tokens>>
  /\ UNCHANGED <<collected_at, drawn, overall_writes, finished_at, fn_vars>>
Finally ==
  /\ main_pc = "finally"
  /\ pauses' = IF idx < Len(FUELS) THEN pauses + 1 ELSE pauses
  /\ now' = IF idx < Len(FUELS) THEN now + 1 ELSE now
  /\ IF exc # ""
     THEN /\ Die(exc)
          /\ UNCHANGED <<idx, retry_vars, page_vars>>
     ELSE /\ UNCHANGED <<site, fail_reason, retry_vars>>
          /\ resp_body' = NoBody
          /\ rows' = <<>>
          /\ stats' = NoStats
          /\ IF idx < Len(FUELS)
             THEN idx' = idx + 1 /\ main_pc' = "loop"
             ELSE idx' = idx /\ main_pc' = "write_overall"
  /\ UNCHANGED <<site, boot_vars, uuids, run_id, exc, exc_cause, file_vars, overall_runs,
                 posted, post_tokens>>
  /\ UNCHANGED <<collected_at, drawn, overall_writes, finished_at, fn_vars>>

\* json.dump(overall) to overall_manifest.json
WriteOverall ==
  /\ main_pc = "write_overall"
  /\ overall_file' = Some([finished_at_utc |-> finished_at, runs |-> overall_runs])
  /\ overall_writes' = overall_writes + 1
  /\ main_pc' = "done"
  /\ UNCHANGED <<site, fail_reason, boot_vars, retry_vars, fuel_vars, page_vars, exc, exc_cause,
                 data_files, manifests, overall_runs, log_vars>>
  /\ UNCHANGED <<now, collected_at, drawn, finished_at, fn_vars>>

Next ==
  \/ BootstrapFault
  \/ BootstrapHttpError
  \/ BootstrapPage
  \/ ScanFault
  \/ ScanSkipped
  \/ ScanScript
  \/ ScanExhausted
  \/ CollectStart
  \/ AttemptTransportFault
  \/ AttemptRateLimited
  \/ AttemptUnauthorized
  \/ AttemptHttpError
  \/ AttemptSuccess
  \/ RetriesExhausted
  \/ ParseResponse
  \/ WriteData
  \/ WriteManifest
  \/ Finally
  \/ WriteOverall

Spec == Init /\ [][Next]_vars

\* ------------------------------------------------ pure functions on their own
main_vars == <<site, main_pc, fail_reason, boot_vars, retry_vars, fuel_vars, page_vars, exc,
               exc_cause, file_vars, overall_runs, log_vars, clock_vars, finished_at>>
NotStarted ==
  /\ site = <<>>
  /\ Boot
  /\ uuids = 0
  /\ data_files = <<>>
  /\ manifests = <<>>

\* compute_backoff(attempt) and compute_backoff(attempt + 1), each with a
\* jitter draw of its own
InitBackoff ==
  /\ NotStarted
  /\ ApiIdle
  /\ fn_pc = "backoff"
  /\ fn_n \in 1..MaxAttemptArg
  /\ fn_j1 \in JitterPercents
  /\ fn_j2 \in JitterPercents
  /\ fn_out1 = 0
  /\ fn_out2 = 0
  /\ fn_text = <<>>
  /\ fn_html_token = None
  /\ fn_js_token = None

ComputeBackoff ==
  /\ fn_pc = "backoff"
  /\ fn_out1' = compute_backoff(fn_n, fn_j1)
  /\ fn_out2' = compute_backoff(fn_n + 1, fn_j2)
  /\ fn_pc' = "done"
  /\ UNCHANGED <<main_vars, fn_n, fn_j1, fn_j2, fn_text, fn_html_token, fn_js_token, api_vars>>

SpecBackoff == InitBackoff /\ [][ComputeBackoff]_vars

\* extract_csrf_from_html(text) and extract_csrf_from_js_text(text)
InitExtract ==
  /\ NotStarted
  /\ ApiIdle
  /\ fn_pc = "extract"
  /\ fn_text \in Texts
  /\ fn_n = 0
  /\ fn_j1 = 0
  /\ fn_j2 = 0
  /\ fn_out1 = 0
  /\ fn_out2 = 0
  /\ fn_html_token = None
  /\ fn_js_token = None

ExtractTokens ==
  /\ fn_pc = "extract"
  /\ fn_html_token' = extract_csrf_from_html(fn_text)
  /\ fn_js_token' = extract_csrf_from_js_text(fn_text)
  /\ fn_pc' = "done"
  /\ UNCHANGED <<main_vars, fn_n, fn_j1, fn_j2, fn_out1, fn_out2, fn_text, api_vars>>

SpecExtract == InitExtract /\ [][ExtractTokens]_vars

\* ------------------------------------------------------- the query API
\* Text is a sequence of pieces. T(s) is a piece of literal text; order_dir
\* is kept character by character, because the code lower-cases and trims it.
T(s) == <<s>>
UpperToLower == [c \in {"A", "S", "C", "D", "E"} |->
                   CASE c = "A" -> "a" [] c = "S" -> "s" [] c = "C" -> "c"
                     [] c = "D" -> "d" [] c = "E" -> "e"]
Whitespace == {" ", "\t", "\n"}

\* str.lower()
lower(w) == [i \in 1..Len(w) |-> IF w[i] \in DOMAIN UpperToLower THEN UpperToLower[w[i]] ELSE w[i]]
\* str.strip(): leading and trailing whitespace removed
RECURSIVE lstrip(_)
lstrip(w) == IF w # <<>> /\ Head(w) \in Whitespace THEN lstrip(Tail(w)) ELSE w
RECURSIVE rstrip(_)
rstrip(w) ==
  IF w # <<>> /\ w[Len(w)] \in Whitespace THEN rstrip(SubSeq(w, 1, Len(w) - 1)) ELSE w
strip(w) == rstrip(lstrip(w))

ASC == <<"a", "s", "c">>
DESC == <<"d", "e", "s", "c">>
latest_allowed_order_by ==
  {"price_unit", "price_net", "price_gross", "discount", "price_ts", "city", "uf",
   "station_name", "distance_km"}
nearby_allowed_order_by == {"price_unit", "distance_km", "price_ts"}

\* the two checks at the head of get_latest_prices and get_prices_nearby:
\* the exception they raise, or "None"
OrderCheck_dirUnchecked(allowed, order_by, order_dir) ==
  IF order_by \notin allowed THEN "ValueError" ELSE "None"
OrderCheck(allowed, order_by, order_dir) ==
  IF order_by \notin allowed THEN "ValueError"
  ELSE IF strip(lower(order_dir)) \notin {ASC, DESC} THEN "ValueError"
  ELSE "None"

\* " AND ".join(where)
RECURSIVE JoinAnd(_)
JoinAnd(where) ==
  IF where = <<>> THEN <<>>
  ELSE IF Len(where) = 1 THEN where[1]
  ELSE where[1] \o <<T("AND")>> \o JoinAnd(Tail(where))
\* (" WHERE " + " AND ".join(where)) if where else ""
WhereSql(where) == IF where # <<>> THEN <<T("WHERE")>> \o JoinAnd(where) ELSE <<>>

\* querydb(sql_text, params): one call, with the parameters named by the
\* argument bound to each
Query(sql, params) == [sql |-> sql, params |-> params]
\* what a function did: the exception it raised ("None" when it returned)
\* and the querydb calls it made before that
Did(e, queries) == [exc |-> e, queries |-> queries]
\* the warehouse answers a call with rows or with an exception
DbOutcomes == {"rows", "error"}

get_latest_prices(fuel_type, order_by, order_dir, db1, db2) ==
  IF OrderCheck(latest_allowed_order_by, order_by, order_dir) # "None"
  THEN Did(OrderCheck(latest_allowed_order_by, order_by, order_dir), <<>>)
  ELSE
    LET dir == strip(lower(order_dir))
        where == IF Truthy(fuel_type) THEN << <<T("fuel_type ="), T("?")>> >> ELSE <<>>
        params == IF Truthy(fuel_type) THEN <<"fuel_type">> ELSE <<>>
        q_total == Query(<<T("SELECT COUNT(*) AS total"), T("FROM"), T("table")>>
                         \o WhereSql(where), params)
        q_data == Query(<<T("SELECT"), T("columns"), T("FROM"), T("table")>> \o WhereSql(where)
                        \o <<T("ORDER BY"), T(order_by), dir, T("LIMIT"), T("?"),
                             T("OFFSET"), T("?")>>,
                        params \o <<"page_size", "offset">>)
    IN IF db1 = "error" THEN Did("Exception", <<q_total>>)
       ELSE IF db2 = "error" THEN Did("Exception", <<q_total, q_data>>)
       ELSE Did("None", <<q_total, q_data>>)

get_prices_nearby(fuel_type, order_by, order_dir, db1) ==
  IF OrderCheck(nearby_allowed_order_by, order_by, order_dir) # "None"
  THEN Did(OrderCheck(nearby_allowed_order_by, order_by, order_dir), <<>>)
  ELSE
    LET dir == strip(lower(order_dir))
        distance_expr == <<T("(6371 * 2 * ASIN(SQRT(POW(SIN(RADIANS(lat -"), T("?"),
                           T(") / 2), 2) + COS(RADIANS("), T("?"),
                           T(")) * COS(RADIANS(lat)) * POW(SIN(RADIANS(lng -"), T("?"),
                           T(") / 2), 2))))")>>
        where == << <<T("lat IS NOT NULL")>>, <<T("lng IS NOT NULL")>> >>
                 \o (IF Truthy(fuel_type) THEN << <<T("fuel_type ="), T("?")>> >> ELSE <<>>)
        params == <<"lat", "lat", "lng">>
                  \o (IF Truthy(fuel_type) THEN <<"fuel_type">> ELSE <<>>)
                  \o <<"radius_km", "limit">>
        qsql == Query(<<T("SELECT"), T("columns")>> \o distance_expr
                      \o <<T("AS distance_km"), T("FROM"), T("table")>> \o WhereSql(where)
                      \o <<T("QUALIFY distance_km <="), T("?"), T("ORDER BY"), T(order_by), dir,
                           T("LIMIT"), T("?")>>,
                      params)
    IN Did(IF db1 = "error" THEN "Exception" ELSE "None", <<qsql>>)

get_cities(uf, db1) ==
  LET where == IF Truthy(uf) THEN << <<T("uf ="), T("?")>> >> ELSE <<>>
      params == (IF Truthy(uf) THEN <<"uf">> ELSE <<>>) \o <<"limit">>
      q == Query(<<T("SELECT DISTINCT uf, city"), T("FROM"), T("table")>> \o WhereSql(where)
                 \o <<T("AND"), T("city IS NOT NULL"), T("ORDER BY"), T("uf, city"),
                      T("LIMIT"), T("?")>>,
                 params)
  IN Did(IF db1 = "error" THEN "Exception" ELSE "None", <<q>>)

\* the requests the endpoints are called with
OrderBys ==
  latest_allowed_order_by \cup {"Price_Unit", " price_unit", "price_unit; DROP TABLE t", ""}
OrderDirs ==
  { ASC, DESC, <<"A", "S", "C">>, <<"D", "e", "s", "c">>, <<" ", "a", "s", "c">>,
    <<"d", "e", "s", "c", "\n">>, <<" ", "D", "E", "S", "C", " ">>, <<>>, <<" ">>,
    <<"a", " ", "s", "c">>, <<"a", "s", "c", ";">>, <<"u", "p">> }
FuelTypes == {None, Some(""), Some("GASOLINA")}
Ufs == {None, Some(""), Some("B"), Some("BA"), Some("BAH")}

\* Query(None, min_length=2, max_length=2)
UfAccepted(uf) == uf = None \/ Len(uf[1]) = 2

\* except ValueError -> 422; except Exception -> 500
StatusOrdered(e) == IF e = "None" THEN 200 ELSE IF e = "ValueError" THEN 422 ELSE 500
\* except Exception -> 500
StatusPlain(e) == IF e = "None" THEN 200 ELSE 500

Request(endpoint, fuel_type, order_by, order_dir, uf) ==
  [endpoint |-> endpoint, fuel_type |-> fuel_type, order_by |-> order_by,
   order_dir |-> order_dir, uf |-> uf]
Answer(req, did, status) ==
  /\ api_req = NoRequest
  /\ api_req' = req
  /\ api_exc' = did.exc
  /\ api_queries' = did.queries
  /\ api_status' = status
  /\ UNCHANGED <<main_vars, fn_pc, fn_n, fn_j1, fn_j2, fn_out1, fn_out2, fn_text,
                 fn_html_token, fn_js_token>>

\* GET /prices/latest
prices_latest_alias ==
  \E ft \in FuelTypes, ob \in OrderBys, od \in OrderDirs, db1 \in DbOutcomes, db2 \in DbOutcomes :
    LET did == get_latest_prices(ft, ob, od, db1, db2) IN
      Answer(Request("/prices/latest", ft, ob, od, None), did, StatusOrdered(did.exc))

\* GET /latest
latest ==
  \E ft \in FuelTypes, ob \in OrderBys, od \in OrderDirs, db1 \in DbOutcomes, db2 \in DbOutcomes :
    LET did == get_latest_prices(ft, ob, od, db1, db2) IN
      Answer(Request("/latest", ft, ob, od, None), did, StatusOrdered(did.exc))

\* GET /prices/nearby
prices_nearby ==
  \E ft \in FuelTypes, ob \in OrderBys, od \in OrderDirs, db1 \in DbOutcomes :
    LET did == get_prices_nearby(ft, ob, od, db1) IN
      Answer(Request("/prices/nearby", ft, ob, od, None), did, StatusOrdered(did.exc))

\* GET /meta/cities; a uf of another length than two is answered 422 by
\* the framework and meta_cities is not called
meta_cities ==
  \E uf \in Ufs, db1 \in DbOutcomes :
    IF UfAccepted(uf)
    THEN LET did == get_cities(uf, db1) IN
           Answer(Request("/meta/cities", None, "", <<>>, uf), did, StatusPlain(did.exc))
    ELSE Answer(Request("/meta/cities", None, "", <<>>, uf),
                Did("RequestValidationError", <<>>), 422)

\* the answer is sent; the next request finds nothing of this one
Respond ==
  /\ api_req # NoRequest
  /\ api_req' = NoRequest
  /\ api_exc' = "None"
  /\ api_status' = 0
  /\ api_queries' = <<>>
  /\ UNCHANGED <<main_vars, fn_pc, fn_n, fn_j1, fn_j2, fn_out1, fn_out2, fn_text,
                 fn_html_token, fn_js_token>>

InitApi == NotStarted /\ FnIdle
NextApi ==
  \/ Respond
  \/ prices_latest_alias
  \/ latest
  \/ prices_nearby
  \/ meta_cities
SpecApi == InitApi /\ [][NextApi]_vars

\* A batch and a manifest already under the identifier the first fuel will
\* draw (a collision of run identifiers, forced): rows that the collection
\* at hand can write again, or rows of another collection.
StaleBody == Body(TRUE, "object", JList(<<99>>), JMissing, JMissing, JMissing)
OldBatches ==
  { page_to_rows(0, uuid4(0), FUELS[1], PriorBody),
    page_to_rows(0 - 5, uuid4(0), FUELS[1], StaleBody) }
InitCollide ==
  /\ site \in Pages
  /\ Boot
  /\ FnIdle
  /\ uuids = 0
  /\ \E old \in OldBatches :
       /\ data_files = [r \in {uuid4(0)} |-> old]
       /\ manifests = [r \in {uuid4(0)} |->
                         [run_id |-> r, collected_at_utc |-> old[1].collected_at_utc,
                          anp |-> FUELS[1], totalPaginas_reported |-> 1,
                          totalRegistros_reported |-> 0,
                          registrosdaPagina_reported |-> 1, rows_written |-> 1]]

SpecCollide == InitCollide /\ [][Next]_vars

\* main invoked again after an earlier invocation
SpecRerun == InitRerun /\ [][Next]_vars

\* bootstrap_and_find_csrf alone, on the pages of the script scan
NextScan ==
  \/ BootstrapFault
  \/ BootstrapHttpError
  \/ BootstrapPage
  \/ ScanFault
  \/ ScanSkipped
  \/ ScanScript
  \/ ScanExhausted

SpecScan == InitScan /\ [][NextScan]_vars

\* ---------------------------------------------------------------- properties
Is429 == last_resp.kind = "http" /\ last_resp.status = 429
Is2xx == last_resp.kind = "http" /\ 200 <= last_resp.status /\ last_resp.status < 300
IsBackoffOf(w, n) ==
  w.kind = "backoff" /\ w.attempt = n /\ \E j \in JitterDraws : w.cs = compute_backoff(n, j)

\* C1: an attempt that receives HTTP 401 ends the call at once: the call is
\* no longer attempting and no wait was performed for that attempt.
C1_UnauthorizedFailsAtOnce ==
  (last_resp.kind = "http" /\ last_resp.status = 401)
    => (main_pc # "request" /\ nwait < nreq)

\* C2: when the run has ended after a successful bootstrap, every fuel was
\* fetched and the overall manifest was written, holding exactly the
\* manifests of the fuels that completed.
C2_FetchFailureIsolated ==
  (main_pc \in {"done", "failed"} /\ idx >= 1)
    => /\ posted = 1..Len(FUELS)
       /\ overall_file # None
       /\ { overall_file[1].runs[i] : i \in 1..Len(overall_file[1].runs) }
            = { manifests[r] : r \in DOMAIN manifests }

\* C3: the error of exhausted retries carries the cause of the last attempt
\* observed (for a 429: the rate limit, or the header that failed to parse).
LastCauses(resp) ==
  IF resp.kind = "fault" THEN {"transport fault"}
  ELSE IF resp.status = 429 THEN {"429 rate limit", "ValueError"}
  ELSE IF resp.status = 401 THEN {"401 unauthorized"}
  ELSE {"HTTPError"}
C3_ExhaustionCarriesLastCause ==
  exc = "RuntimeError: Request failed after retries" => exc_cause \in LastCauses(last_resp)

\* C4: while every response of a call is a 429 without Retry-After, each is
\* followed by one wait, a compute_backoff of that attempt's number, and the
\* call goes on; a 2xx after k such responses (k < MAX_RETRIES) is returned
\* with k+1 requests issued, k waits performed and no wait after it.
C4_PlainRateLimitsThenSuccess ==
  /\ (main_pc = "request" /\ only429plain /\ nreq > 0)
       => /\ Is429
          /\ nwait = nreq
          /\ attempt = nreq + 1
          /\ IsBackoffOf(last_wait, nreq)
  /\ (main_pc = "parse" /\ only429plain)
       => /\ Is2xx
          /\ nreq <= MAX_RETRIES
          /\ nwait = nreq - 1
          /\ nreq > 1 => IsBackoffOf(last_wait, nreq - 1)
          /\ exc = ""
C4_Witness ==
  main_pc = "parse" /\ only429plain /\ nreq = MAX_RETRIES /\ nwait = MAX_RETRIES - 1

\* C5: after a 429 whose Retry-After is a non-negative integer N the wait is
\* exactly N seconds and no backoff; after a 429 with the header absent or
\* not such an integer the wait is compute_backoff of that attempt.
IsNonNegativeInteger(h) ==
  h.present /\ h.chars # <<>> /\ \A i \in 1..Len(h.chars) : h.chars[i] \in {"0", "5"}
RECURSIVE Numeral(_)
Numeral(chars) ==
  IF chars = <<>> THEN 0
  ELSE (IF Head(chars) = "5" THEN 5 ELSE 0) * (10 ^ (Len(chars) - 1)) + Numeral(Tail(chars))
C5_RetryAfterHonoured ==
  Is429 =>
    IF IsNonNegativeInteger(last_resp.retry_after)
    THEN last_wait = Wait("retry_after", nreq, 100 * Numeral(last_resp.retry_after.chars))
    ELSE IsBackoffOf(last_wait, nreq)
C5_Witness ==
  /\ Is429
  /\ last_resp.retry_after = Header(<<"0">>)
  /\ last_wait = Wait("retry_after", nreq, 0)
  /\ nwait = nreq

\* C6: bootstrap does not die of the first 429, non-401 HTTP error or
\* transport fault on the landing page: it has then issued MAX_RETRIES GETs.
C6_LandingPageRetried ==
  (main_pc = "failed" /\ idx = 0 /\ fetched = <<>>
     /\ landing_resp.kind \in {"fault", "http"}
     /\ (landing_resp.kind = "http" => landing_resp.status \in {404, 429, 500}))
    => landing_gets >= MAX_RETRIES

\* C7: when bootstrap ends without a token the run has failed, no POST was
\* issued and no data batch or manifest exists; every POST carries the
\* non-empty token bootstrap obtained.
BootstrapOver == main_pc \notin {"bootstrap", "scan"}
C7_NoTokenNoPost ==
  /\ (BootstrapOver /\ ~Truthy(csrf))
       => /\ main_pc = "failed"
          /\ posted = {}
          /\ post_tokens = {}
          /\ DOMAIN data_files = {}
          /\ DOMAIN manifests = {}
          /\ overall_file = None
  /\ post_tokens \subseteq {csrf}
  /\ \A t \in post_tokens : t # None /\ t[1] # ""
  /\ posted # {} => post_tokens # {}
  /\ (Truthy(csrf) /\ csrf_from = 0) => \E i \in 1..Len(html) : html[i].v = csrf[1]
C7_Witness ==
  /\ main_pc = "failed"
  /\ fetched # <<>>
  /\ scan_i > Len(fetched)
  /\ csrf = None
  /\ posted = {}

\* C8: scripts are requested only when the markup holds no token; the
\* requests follow the document order of the first occurrence of each URL,
\* skipping none and repeating none, are at most 25, and none follows the
\* script that yielded the token.
TokenShapes == {"input", "meta", "xcsrf", "csrf_token", "csrfToken", "signed"}
MarkupHasToken == \E i \in 1..Len(html) : html[i].k \in TokenShapes /\ html[i].v # ""
IsScriptOf(u, i) == html[i].k = "script" /\ <<"https://precodahora.ba.gov.br", html[i].n>> = u
FirstPlace(u) == CHOOSE i \in 1..Len(html) :
                   IsScriptOf(u, i) /\ \A k \in 1..(i - 1) : ~IsScriptOf(u, k)
C8_BoundedOrderedScan ==
  /\ fetched # <<>> => ~MarkupHasToken
  /\ Len(fetched) <= 25
  /\ \A i \in 1..Len(fetched) : \E p \in 1..Len(html) : IsScriptOf(fetched[i], p)
  /\ \A i, k \in 1..Len(fetched) : i < k => FirstPlace(fetched[i]) < FirstPlace(fetched[k])
  /\ \A i \in 1..Len(fetched) : \A p \in 1..FirstPlace(fetched[i]) :
       html[p].k = "script" => \E k \in 1..i : IsScriptOf(fetched[k], p)
  /\ csrf_from # 0 => (Len(fetched) = csrf_from /\ Truthy(csrf))
C8_Witness ==
  /\ main_pc = "failed"
  /\ Len(fetched) = 25
  /\ Len(script_urls) > 25
  /\ \E i \in 1..Len(html) : \E k \in 1..(i - 1) :
       html[i].k = "script" /\ html[k].k = "script" /\ html[i].n = html[k].n

\* C9: a data batch exists only for a fuel whose fetch, JSON parse and shape
\* check succeeded, a manifest only where the data batch exists, and a fuel
\* that failed has neither under its run identifier.
C9_OutputOnlyAfterSuccess ==
  /\ DOMAIN manifests \subseteq DOMAIN data_files
  /\ \A r \in DOMAIN data_files : r <= uuids /\ (r # run_id => r \in DOMAIN manifests)
  /\ main_pc \in {"request", "parse", "write_data"} => run_id \notin DOMAIN data_files
  /\ (run_id \in DOMAIN data_files /\ main_pc \in {"write_manifest", "finally"})
       => /\ exc = ""
          /\ resp_body.json
          /\ SanityCheck(resp_body).err = ""
  /\ exc # "" => (run_id \notin DOMAIN data_files /\ run_id \notin DOMAIN manifests)
C9_Witness ==
  /\ main_pc = "failed"
  /\ exc # ""
  /\ idx = 2
  /\ DOMAIN data_files = {1}
  /\ DOMAIN manifests = {1}
  /\ run_id = 2

\* C10: a parsed response whose resultado is missing or not an array ends
\* the fuel with an error and leaves no rows and no manifest.
C10_ResultadoMustBeArray ==
  (resp_body.json /\ resp_body.top = "object" /\ resp_body.resultado.t # "list")
    => /\ exc # ""
       /\ run_id \notin DOMAIN data_files
       /\ run_id \notin DOMAIN manifests

\* C11: once a fuel's batch is written, it holds one row per item of the
\* response's results array, in the array's order, and the manifest written
\* for it reports that number of rows, whatever counters the response
\* reports; an empty array gives an empty batch and rows_written = 0.
FuelWritten == main_pc = "finally" /\ exc = ""
C11_OneRowPerItem ==
  /\ (main_pc \in {"write_manifest", "finally"} /\ exc = ""
        /\ resp_body.resultado.t = "list")
       => /\ run_id \in DOMAIN data_files
          /\ Len(data_files[run_id]) = Len(resp_body.resultado.items)
          /\ \A i \in 1..Len(resp_body.resultado.items) :
               data_files[run_id][i].raw = resp_body.resultado.items[i]
  /\ (FuelWritten /\ resp_body.resultado.t = "list")
       => /\ run_id \in DOMAIN manifests
          /\ manifests[run_id].rows_written = Len(resp_body.resultado.items)
C11_Witness ==
  /\ FuelWritten
  /\ idx = 2
  /\ resp_body.resultado = JList(<<>>)
  /\ data_files[run_id] = <<>>
  /\ manifests[run_id].rows_written = 0
  /\ manifests[1].rows_written = 1
  /\ manifests[1].registrosdaPagina_reported = 9

\* C12: every row of a batch carries the run identifier of the batch's path
\* and one collection time, those of the batch's manifest; the identifiers
\* an invocation draws differ from one another and from those of the
\* earlier invocation, whose batches and manifests stay as they were.
C12_OneIdentityPerBatch ==
  /\ \A r \in DOMAIN data_files : \A i \in 1..Len(data_files[r]) :
       /\ data_files[r][i].run_id = r
       /\ data_files[r][i].collected_at_utc = data_files[r][1].collected_at_utc
       /\ r \in DOMAIN manifests =>
            /\ manifests[r].run_id = r
            /\ manifests[r].collected_at_utc = data_files[r][i].collected_at_utc
  /\ \A i, k \in 1..Len(drawn) : i # k => drawn[i] # drawn[k]
  /\ \A i \in 1..Len(drawn) : drawn[i] \notin DOMAIN PriorManifests
  /\ \A r \in DOMAIN PriorData : r \in DOMAIN data_files /\ data_files[r] = PriorData[r]
  /\ \A r \in DOMAIN PriorManifests : r \in DOMAIN manifests /\ manifests[r] = PriorManifests[r]
C12_Witness ==
  /\ main_pc = "done"
  /\ Len(drawn) = Len(FUELS)
  /\ \A i \in 1..Len(drawn) : drawn[i] \in DOMAIN manifests
  /\ Len(data_files[drawn[1]]) = 2
  /\ manifests[drawn[2]].collected_at_utc # manifests[drawn[1]].collected_at_utc

\* C13: overall_manifest.json is written at most once, only when main is
\* done with the last fuel, and its runs are the manifests written for the
\* fuels, one per fuel in the order of FUELS, a fuel without results too.
C13_OverallManifestComplete ==
  /\ overall_writes <= 1
  /\ (overall_file # None) <=> (overall_writes = 1)
  /\ main_pc = "write_overall" => Len(overall_runs) = Len(FUELS)
  /\ overall_file # None =>
       /\ main_pc = "done"
       /\ idx = Len(FUELS)
       /\ posted = 1..Len(FUELS)
       /\ Len(overall_file[1].runs) = Len(FUELS)
       /\ \A i \in 1..Len(overall_file[1].runs) :
            LET m == overall_file[1].runs[i] IN
              /\ m.anp = FUELS[i]
              /\ m.run_id \in DOMAIN manifests
              /\ manifests[m.run_id] = m
C13_Witness ==
  /\ main_pc = "done"
  /\ overall_file # None
  /\ overall_file[1].runs[1].rows_written = 2
  /\ overall_file[1].runs[2].rows_written = 0
  /\ overall_file[1].runs[Len(FUELS)].rows_written = 0

\* C14: the finish time of overall_manifest.json is not earlier than the
\* collection time of any manifest it holds.
C14_FinishedAfterCollection ==
  overall_file # None =>
    \A i \in 1..Len(overall_file[1].runs) :
      overall_file[1].finished_at_utc >= overall_file[1].runs[i].collected_at_utc

\* C15: fuels are taken in the order of FUELS, one at a time; while fuel i
\* is in hand i - 1 courtesy pauses have been performed, one after each
\* fuel before it, and the pause after fuel i is performed also when its
\* fetch failed; retry waits are not counted among them.
InFuel == main_pc \in {"loop", "request", "parse", "write_data", "write_manifest", "finally"}
C15_OnePauseBetweenFuels ==
  /\ InFuel =>
       /\ pauses = idx - 1
       /\ posted \subseteq 1..idx
       /\ 1..(idx - 1) \subseteq posted
       /\ Len(drawn) \in {idx - 1, idx}
  /\ (main_pc = "failed" /\ exc # "") =>
       pauses = IF idx < Len(FUELS) THEN idx ELSE idx - 1
  /\ main_pc \in {"write_overall", "done"} => pauses = Len(FUELS) - 1
C15_Witness ==
  /\ main_pc = "failed"
  /\ exc # ""
  /\ idx = 2
  /\ pauses = 2
  /\ nwait = MAX_RETRIES

\* C16: when a batch exists under the run identifier a collection draws, the
\* batch afterwards holds the rows of that collection and nothing else,
\* whether the rows there before were the same or others.
C16_CollisionReplacesBatch ==
  (idx = 1 /\ main_pc \in {"write_manifest", "finally"} /\ exc = "")
    => /\ data_files[run_id] = rows
       /\ Len(data_files[run_id]) = Len(OrEmptyList(resp_body.resultado).items)
C16_Witness ==
  /\ idx = 1
  /\ FuelWritten
  /\ Len(rows) = 1
  /\ data_files[run_id] = rows
  /\ manifests[run_id].rows_written = 1

\* C17 (as claimed): compute_backoff(n) is at most the maximum delay and at
\* least 1.25 times the capped base min(maxDelay, baseDelay * 2^(n-1)).
CappedBase(n) ==
  IF BASE_BACKOFF_SECONDS * (2 ^ (n - 1)) < MAX_BACKOFF_SECONDS
  THEN BASE_BACKOFF_SECONDS * (2 ^ (n - 1)) ELSE MAX_BACKOFF_SECONDS
C17_BackoffWithinBounds ==
  fn_pc = "done" =>
    /\ fn_out1 <= 100 * MAX_BACKOFF_SECONDS
    /\ fn_out1 >= 125 * CappedBase(fn_n)

\* C17 (amended): compute_backoff(n) is at most the maximum delay and at
\* least the smaller of the maximum delay and 1.25 times the capped base.
C17_BackoffWithinCappedBounds ==
  fn_pc = "done" =>
    /\ fn_out1 <= 100 * MAX_BACKOFF_SECONDS
    /\ fn_out1 >= Min(100 * MAX_BACKOFF_SECONDS, 125 * CappedBase(fn_n))
C17_Witness ==
  /\ fn_pc = "done"
  /\ fn_n = MAX_RETRIES
  /\ fn_j1 = JITTER_LOW
  /\ fn_out1 = 100 * MAX_BACKOFF_SECONDS
  /\ fn_out1 < 125 * CappedBase(fn_n)

\* C18: compute_backoff(n) with any jitter draw is at most
\* compute_backoff(n + 1) with any jitter draw, and is the maximum delay
\* once baseDelay * 2^(n-1) exceeds the maximum delay.
C18_BackoffMonotone ==
  fn_pc = "done" =>
    /\ fn_out1 <= fn_out2
    /\ BASE_BACKOFF_SECONDS * (2 ^ (fn_n - 1)) > MAX_BACKOFF_SECONDS =>
         (fn_out1 = 100 * MAX_BACKOFF_SECONDS /\ fn_out2 = 100 * MAX_BACKOFF_SECONDS)
C18_Witness ==
  /\ fn_pc = "done"
  /\ fn_n = MAX_RETRIES - 1
  /\ fn_j1 = JITTER_HIGH
  /\ fn_j2 = JITTER_LOW
  /\ fn_out1 < fn_out2
  /\ fn_out2 = 100 * MAX_BACKOFF_SECONDS

\* C19: extract_csrf_from_html returns the value captured by the first
\* named pattern, in list order, that matches anywhere in the text (at its
\* leftmost match); the signed-token shape only when no named pattern
\* matches; None when nothing matches; never an empty token.
\* extract_csrf_from_js_text returns the leftmost signed token or None.
NamedHits(text) ==
  {p \in 1..Len(PatternShapes) : \E i \in 1..Len(text) : PatternMatches(p, text[i])}
Leftmost(S) == CHOOSE i \in S : \A k \in S : i <= k
HitsOf(text, p) == {i \in 1..Len(text) : PatternMatches(p, text[i])}
SignedHits(text) == {i \in 1..Len(text) : text[i].k = "signed" /\ text[i].v # ""}
C19_FirstPatternInListOrder ==
  fn_pc = "done" =>
    /\ NamedHits(fn_text) # {} =>
         fn_html_token = Some(fn_text[Leftmost(HitsOf(fn_text, Leftmost(NamedHits(fn_text))))].v)
    /\ (NamedHits(fn_text) = {} /\ SignedHits(fn_text) # {}) =>
         fn_html_token = Some(fn_text[Leftmost(SignedHits(fn_text))].v)
    /\ (NamedHits(fn_text) = {} /\ SignedHits(fn_text) = {}) => fn_html_token = None
    /\ fn_html_token # None => fn_html_token[1] # ""
    /\ fn_js_token = IF SignedHits(fn_text) # {}
                     THEN Some(fn_text[Leftmost(SignedHits(fn_text))].v) ELSE None
C19_Witness ==
  /\ fn_pc = "done"
  /\ fn_text = <<Frag("signed", "ImS.a.b"), Frag("csrf_token", "tokT"), Frag("input", "tokI")>>
  /\ fn_html_token = Some("tokI")
  /\ fn_js_token = Some("ImS.a.b")

\* C20: request_with_retry issues at most MAX_RETRIES requests and every
\* step it takes either issues one more request or leaves it; every
\* non-success attempt is followed by one wait, the final one included, so
\* exhaustion is raised after exactly MAX_RETRIES requests and MAX_RETRIES
\* waits, and a success on attempt k comes after k - 1 waits.
Exhausted == main_pc = "finally" /\ exc = "RuntimeError: Request failed after retries"
C20_Counts ==
  /\ nreq <= MAX_RETRIES
  /\ main_pc = "request" => (nwait = nreq /\ attempt = nreq + 1)
  /\ main_pc = "parse" => (nreq = attempt /\ nwait = nreq - 1)
  /\ Exhausted => (nreq = MAX_RETRIES /\ nwait = MAX_RETRIES)
C20_Progress ==
  (main_pc = "request" /\ main_pc' = "request") => (nreq' = nreq + 1 /\ nwait' = nwait + 1)
C20_BoundedRequestsOneWaitEach == []C20_Counts /\ [][C20_Progress]_vars
C20_Witness ==
  /\ Exhausted
  /\ nreq = MAX_RETRIES
  /\ nwait = MAX_RETRIES
  /\ last_resp = HttpResp(429, NoHeader)
  /\ last_wait.attempt = MAX_RETRIES

\* C21: an order_by outside the function's whitelist, or an order_dir that
\* is not asc or desc once lower-cased and trimmed, is rejected with a
\* ValueError before any query is executed and answered with HTTP 422; in
\* every query that is executed, ORDER BY is followed by a whitelisted
\* column and by asc or desc.
OrderedEndpoints == {"/latest", "/prices/latest", "/prices/nearby"}
WhitelistOf(endpoint) ==
  IF endpoint = "/prices/nearby" THEN nearby_allowed_order_by ELSE latest_allowed_order_by
C21_Rejected(req) ==
  \/ req.order_by \notin WhitelistOf(req.endpoint)
  \/ strip(lower(req.order_dir)) \notin {ASC, DESC}
OrderByPlaces(sql) == {i \in 1..Len(sql) : sql[i] = T("ORDER BY")}
Places(sql, word) == {i \in 1..Len(sql) : sql[i] = T(word)}
C22_CitiesQueryWellFormed ==
  api_req.endpoint = "/meta/cities" =>
    \A k \in 1..Len(api_queries) :
      /\ \A a \in Places(api_queries[k].sql, "AND") :
           \E w \in Places(api_queries[k].sql, "WHERE") : w < a
      /\ Cardinality(Places(api_queries[k].sql, "?")) = Len(api_queries[k].params)

====
